---- MODULE Spec2Model ----
(***************************************************************************)
(* Financial calculator suite: the loan amortization engine                *)
(* (calculateLoanMetrics), the multi-loan comparison state and the         *)
(* pagination of the EmiCalculator component, the SIP projection of        *)
(* SipCalculator, the simple-interest computation of InterestCalculator    *)
(* and the SliderInput widget that feeds all three.                        *)
(*                                                                         *)
(* Numbers.  The source computes on IEEE doubles.  Here a number is a      *)
(* fixed-point decimal: an amount is held in 1/MoneyScale units, a rate or *)
(* factor in 1/RateScale units.  Sums and differences are exact; products  *)
(* and quotients are rounded to the nearest representable value, as every  *)
(* double operation is.  What the doubles do at 2^-53 relative precision   *)
(* the model does at a fixed absolute precision: principal / totalMonths   *)
(* is in general inexact, and a positive rate that is small enough         *)
(* underflows to 0 when divided (as 5e-324 / 12 does in doubles), which    *)
(* makes the installment 0/0 = NaN.                                        *)
(*                                                                         *)
(* calculateLoanMetrics is followed statement by statement: pc is its      *)
(* position, one step of Iterate is one pass through the loop body.        *)
(* Tenure is a whole number of years.  The payment date of a row (a        *)
(* formatted string of "now" + month) is not modelled.                     *)
(*                                                                         *)
(* The text of a SliderInput is a sequence of characters; parseFloat and   *)
(* toString work on its characters.                                        *)
(*                                                                         *)
(* Specifications: SpecLoan (the loan engine on bounded inputs),           *)
(* SpecCompare (the comparison collection and the page of the table),      *)
(* SpecSip, SpecInterest (the two other engines on bounded inputs) and     *)
(* SpecSlider (one SliderInput).  Each leaves the other components in      *)
(* their initial state.                                                    *)
(***************************************************************************)
EXTENDS Integers, Sequences, FiniteSets, TLC

\* ------------------------------------------------------------------ bounds
MaxTenure == 2
MaxId == 4
MaxChanges == 1
MaxYears == 2
MaxText == 2
MaxPage == 2

\* ------------------------------------------------------- number model
MoneyScale == 10^2      \* an amount m stands for m / MoneyScale currency units
RateScale == 10^6       \* a rate or factor f stands for f / RateScale

Num(n) == n * MoneyScale
Pct(n) == n * RateScale

\* Quotient and remainder of a * b by c (a, b >= 0, c > 0), formed by
\* doubling so that no intermediate value leaves the integer range.
RECURSIVE MulDivQR(_, _, _)
MulDivQR(a, b, c) ==
    IF b = 0 THEN [q |-> 0, r |-> 0]
    ELSE LET h == MulDivQR(a, b \div 2, c)
             t == 2 * h.r + (b % 2) * (a % c)
         IN  [q |-> 2 * h.q + (b % 2) * (a \div c) + (t \div c), r |-> t % c]

\* a * b / c rounded to nearest (a, b >= 0, c > 0).
MulDiv(a, b, c) ==
    IF a = 0 \/ b = 0 THEN 0
    ELSE LET d == MulDivQR(a, b, c)
         IN  IF 2 * d.r >= c THEN d.q + 1 ELSE d.q

\* a * b / RateScale rounded to nearest (a, b >= 0): the value of
\* MulDiv(a, b, RateScale), formed from the halves of a and b above and
\* below RateRoot so that no intermediate value leaves the integer range.
RateRoot == 10^3

MulScale(a, b) ==
    LET a1 == a \div RateRoot
        a0 == a % RateRoot
        b1 == b \div RateRoot
        b0 == b % RateRoot
        u == a1 * b0
        v == a0 * b1
        low == ((u % RateRoot) + (v % RateRoot)) * RateRoot + a0 * b0
        q == a1 * b1 + (u \div RateRoot) + (v \div RateRoot) + (low \div RateScale)
    IN  IF 2 * (low % RateScale) >= RateScale THEN q + 1 ELSE q

\* x * f for a factor f >= 0 (a rate or a power of 1 + rate).
Mul(x, f) == IF x < 0 THEN 0 - MulScale(0 - x, f) ELSE MulScale(x, f)

\* x / f for x >= 0 and a factor f > 0.
Div(x, f) == MulDiv(x, RateScale, f)

\* a / n for an integer n > 0 (12, 100, totalMonths), rounded to nearest.
DivInt(a, n) == (2 * a + n) \div (2 * n)

\* Math.pow(x, n) for an integer n >= 0.
RECURSIVE Pow(_, _)
Pow(x, n) ==
    IF n = 0 THEN RateScale
    ELSE LET h == Pow(x, n \div 2)
             sq == Mul(h, h)
         IN  IF n % 2 = 1 THEN Mul(sq, x) ELSE sq

\* Math.round of an amount: nearest integer, halves towards +Infinity.
Round(x) == ((x + (MoneyScale \div 2)) \div MoneyScale) * MoneyScale

\* ------------------------------------------------ calculateLoanMetrics
EmptyMetrics ==
    [amortizationSchedule |-> <<>>, firstPayment |-> 0,
     totalInterest |-> 0, totalPayment |-> 0]

InvalidInput_ZeroPrincipal(scenario) ==
    scenario.principal < 0 \/ scenario.rate <= 0 \/ scenario.tenure <= 0

\* if (principal <= 0 || rate <= 0 || tenure <= 0)
InvalidInput(scenario) ==
    scenario.principal <= 0 \/ scenario.rate <= 0 \/ scenario.tenure <= 0

monthlyRateOf(scenario) == DivInt(DivInt(scenario.rate, 12), 100)

totalMonthsOf(scenario) == scenario.tenure * 12

\* emiValue = principal * monthlyRate * pow(1 + monthlyRate, totalMonths)
\*            / (pow(1 + monthlyRate, totalMonths) - 1)
emiValueOf(scenario) ==
    LET monthlyRate == monthlyRateOf(scenario)
        pw  == Pow(RateScale + monthlyRate, totalMonthsOf(scenario))
        num == Mul(Mul(scenario.principal, monthlyRate), pw)
        den == pw - RateScale
    IN  IF den # 0 THEN [kind |-> "finite", value |-> Div(num, den)]
        ELSE IF num = 0 THEN [kind |-> "NaN", value |-> 0]
        ELSE [kind |-> "Infinity", value |-> 0]

IsNaN(e) == e.kind = "NaN"
IsFinite(e) == e.kind = "finite"

Clamp0(b) == IF b < 0 THEN 0 ELSE b

\* One iteration of the 'emi' loop: the row pushed and the balance carried.
emiStep_NoFinalFix(month, remainingBalance, emiValue, monthlyRate, totalMonths) ==
    LET interestPaid == Mul(remainingBalance, monthlyRate)
        principalPaid == emiValue - interestPaid
        newBalance == remainingBalance - principalPaid
    IN  [row |-> [month |-> month,
                  principalPaid |-> principalPaid,
                  interestPaid |-> interestPaid,
                  totalPayment |-> emiValue,
                  remainingBalance |-> Clamp0(newBalance)],
         balance |-> newBalance]

emiStep_FinalPaysInstallment(month, remainingBalance, emiValue, monthlyRate, totalMonths) ==
    LET interestPaid == Mul(remainingBalance, monthlyRate)
        principalPaid == IF month = totalMonths
                         THEN remainingBalance
                         ELSE emiValue - interestPaid
        newBalance == IF month = totalMonths
                      THEN 0
                      ELSE remainingBalance - principalPaid
    IN  [row |-> [month |-> month,
                  principalPaid |-> principalPaid,
                  interestPaid |-> interestPaid,
                  totalPayment |-> emiValue,
                  remainingBalance |-> Clamp0(newBalance)],
         balance |-> newBalance]

emiStep(month, remainingBalance, emiValue, monthlyRate, totalMonths) ==
    LET interestPaid == Mul(remainingBalance, monthlyRate)
        currentPayment == IF month = totalMonths
                          THEN remainingBalance + interestPaid
                          ELSE emiValue
        principalPaid == IF month = totalMonths
                         THEN remainingBalance
                         ELSE emiValue - interestPaid
        newBalance == IF month = totalMonths
                      THEN 0
                      ELSE remainingBalance - principalPaid
    IN  [row |-> [month |-> month,
                  principalPaid |-> principalPaid,
                  interestPaid |-> interestPaid,
                  totalPayment |-> currentPayment,
                  remainingBalance |-> Clamp0(newBalance)],
         balance |-> newBalance]

\* One iteration of the 'equalPrincipal' loop.
eqStep_LastAbsorbs(month, remainingBalance, principalPaidPerMonth, monthlyRate, totalMonths) ==
    LET interestPaid == Mul(remainingBalance, monthlyRate)
        principalPaid == IF month = totalMonths THEN remainingBalance
                         ELSE principalPaidPerMonth
        newBalance == remainingBalance - principalPaid
    IN  [row |-> [month |-> month,
                  principalPaid |-> principalPaid,
                  interestPaid |-> interestPaid,
                  totalPayment |-> principalPaid + interestPaid,
                  remainingBalance |-> Clamp0(newBalance)],
         balance |-> newBalance]

eqStep(month, remainingBalance, principalPaidPerMonth, monthlyRate, totalMonths) ==
    LET interestPaid == Mul(remainingBalance, monthlyRate)
        totalPaymentForMonth == principalPaidPerMonth + interestPaid
        newBalance == remainingBalance - principalPaidPerMonth
    IN  [row |-> [month |-> month,
                  principalPaid |-> principalPaidPerMonth,
                  interestPaid |-> interestPaid,
                  totalPayment |-> totalPaymentForMonth,
                  remainingBalance |-> Clamp0(newBalance)],
         balance |-> newBalance]

\* for (let month = 1; month <= totalMonths; month++)
LoopContinues_Exclusive(month, totalMonths) == month < totalMonths

LoopContinues(month, totalMonths) == month <= totalMonths

\* schedule.reduce((acc, curr) => acc + curr.interestPaid, 0), rows lo..hi.
\* Sums are exact, so the rows are added in halves.
RECURSIVE reduceInterest(_, _, _)
reduceInterest(schedule, lo, hi) ==
    IF lo > hi THEN 0
    ELSE IF lo = hi THEN schedule[lo].interestPaid
    ELSE LET mid == (lo + hi) \div 2
         IN  reduceInterest(schedule, lo, mid) + reduceInterest(schedule, mid + 1, hi)

summaryOf_SumOfRounded(principal, schedule) ==
    LET totalInterestValue == reduceInterest(schedule, 1, Len(schedule))
        firstPaymentValue == IF schedule = <<>> THEN 0 ELSE schedule[1].totalPayment
    IN  [amortizationSchedule |-> schedule,
         firstPayment |-> Round(firstPaymentValue),
         totalInterest |-> Round(totalInterestValue),
         totalPayment |-> principal + Round(totalInterestValue)]

\* The return statement: the totals of a schedule.
summaryOf(principal, schedule) ==
    LET totalInterestValue == reduceInterest(schedule, 1, Len(schedule))
        firstPaymentValue == IF schedule = <<>> THEN 0 ELSE schedule[1].totalPayment
    IN  [amortizationSchedule |-> schedule,
         firstPayment |-> Round(firstPaymentValue),
         totalInterest |-> Round(totalInterestValue),
         totalPayment |-> Round(principal + totalInterestValue)]

\* Parameters of a new loan: { principal: 1000000, rate: 8.5, tenure: 20 }
DefaultPrincipal == 1000000
DefaultRate == 8500000
DefaultTenure == 20

\* ------------------------------------------------------------ state
VARIABLES
    input,                  \* the LoanScenario handed to calculateLoanMetrics
    pc,                     \* "start", "loop" (inside a for loop) or "done"
    month,                  \* loop counter
    remainingBalance,       \* let remainingBalance
    emiValue,               \* const emiValue ('emi' branch)
    principalPaidPerMonth,  \* const principalPaidPerMonth (else branch)
    schedule,               \* const schedule, rows pushed so far
    metrics,                \* the CalculatedMetrics returned
    loanScenarios,          \* useState<LoanScenario[]>
    activeLoanId,           \* useState(1)
    nextId,                 \* useState(2)
    currentPage,            \* useState(1)
    lastOp,                 \* the handler that ran last, its arguments, and the
                            \* collection length and active id it found
    issuedIds,              \* every id given to a scenario so far
    changes                 \* number of handleLoanChange calls so far

VARIABLES
    monthlyInvestment,      \* SipCalculator: useState(10000)
    returnRate,             \* SipCalculator: useState(12)
    timePeriod,             \* SipCalculator: useState(15)
    sipPc,                  \* "start", "summary" (first useMemo done) or "done"
    sipBranch,              \* the branch the summary took: "guard" or "formula"
    sipSummary,             \* { totalValue, investedAmount, estimatedReturns }
    yearlyProjection        \* const yearlyProjection

VARIABLES
    siPrincipal,            \* InterestCalculator: useState(100000), principal
    siRate,                 \* InterestCalculator: useState(6), rate
    siTime,                 \* InterestCalculator: useState(5), time
    siPc,                   \* "start" or "done" (useMemo body has run)
    siResult                \* { totalInterest, totalAmount }

VARIABLES
    sliderValue,            \* SliderInput: the value prop, held by the parent
    min,                    \* SliderInput: the min prop
    max,                    \* SliderInput: the max prop
    inputValue,             \* SliderInput: useState(value.toString())
    widgetOp                \* the handler that ran last, the text it read,
                            \* whether it called onChange and with what

engineVars ==
    <<input, pc, month, remainingBalance, emiValue, principalPaidPerMonth,
      schedule, metrics>>

compareVars ==
    <<loanScenarios, activeLoanId, nextId, currentPage, lastOp, issuedIds, changes>>

sipVars ==
    <<monthlyInvestment, returnRate, timePeriod, sipPc, sipBranch, sipSummary,
      yearlyProjection>>

\* The state of the calculators other than the loan calculator.
interestVars == <<siPrincipal, siRate, siTime, siPc, siResult>>

sliderVars == <<sliderValue, min, max, inputValue, widgetOp>>

toolVars == <<sipVars, interestVars, sliderVars>>

vars == <<engineVars, compareVars, toolVars>>

\* useState initial values of EmiCalculator
NewLoan(id) ==
    [id |-> id, principal |-> Num(DefaultPrincipal), rate |-> DefaultRate,
     tenure |-> DefaultTenure, repaymentType |-> "emi"]

InitCompareVars ==
    /\ loanScenarios = <<NewLoan(1)>>
    /\ activeLoanId = 1
    /\ nextId = 2
    /\ currentPage = 1
    /\ lastOp = [op |-> "none", id |-> 0, len |-> 0, active |-> 0,
                 field |-> "none", value |-> 0]
    /\ issuedIds = {1}
    /\ changes = 0

\* A number that may be NaN: the result of a division by 0.
Fin(v) == [kind |-> "finite", value |-> v]
NaN == [kind |-> "NaN", value |-> 0]

\* useState initial values of SipCalculator, nothing computed yet
InitSipVars ==
    /\ monthlyInvestment = Num(10000)
    /\ returnRate = Pct(12)
    /\ timePeriod = 15
    /\ sipPc = "start"
    /\ sipBranch = "none"
    /\ sipSummary = [totalValue |-> Fin(0), investedAmount |-> 0,
                     estimatedReturns |-> Fin(0)]
    /\ yearlyProjection = <<>>

\* useState initial values of InterestCalculator, nothing computed yet
InitInterestVars ==
    /\ siPrincipal = Num(100000)
    /\ siRate = Pct(6)
    /\ siTime = 5
    /\ siPc = "start"
    /\ siResult = [totalInterest |-> 0, totalAmount |-> 0]

\* The numbers of a SliderInput are held in 1/WidgetScale units.
WidgetScale == 10^3

NoWidgetOp == [op |-> "none", text |-> <<>>, called |-> FALSE, arg |-> 0]

\* The Loan Tenure SliderInput of the default loan: value 20 in [1, 30],
\* its text "20".
InitSliderVars ==
    /\ sliderValue = DefaultTenure * WidgetScale
    /\ min = 1 * WidgetScale
    /\ max = 30 * WidgetScale
    /\ inputValue = <<"2", "0">>
    /\ widgetOp = NoWidgetOp

InitToolVars == InitSipVars /\ InitInterestVars /\ InitSliderVars

\* ------------------------------------------- engine on bounded inputs
PrincipalValues ==
    {0 - Num(100), 0, Num(100), Num(100) + 40, Num(100000), Num(DefaultPrincipal)}

\* The rate 1 (one millionth of a percent) is positive and underflows to a
\* monthly rate of 0.
RateValues ==
    {0 - Pct(1), 0, 1, Pct(1), DefaultRate, Pct(20)}

TenureValues == ((0 - 1) .. MaxTenure) \cup {DefaultTenure}

RepaymentTypes == {"emi", "equalPrincipal"}

LoanInputs ==
    [id : {1}, principal : PrincipalValues, rate : RateValues,
     tenure : TenureValues, repaymentType : RepaymentTypes]

InitLoan ==
    /\ input \in LoanInputs
    /\ pc = "start"
    /\ month = 1
    /\ remainingBalance = 0
    /\ emiValue = 0
    /\ principalPaidPerMonth = 0
    /\ schedule = <<>>
    /\ metrics = EmptyMetrics
    /\ InitCompareVars
    /\ InitToolVars

\* Entry of calculateLoanMetrics up to the first loop test: the guard, the
\* installment and its finiteness test, the initial balance.
Enter ==
    /\ pc = "start"
    /\ UNCHANGED <<input, month, schedule>>
    /\ UNCHANGED <<compareVars, toolVars>>
    /\ IF InvalidInput(input)
       THEN /\ pc' = "done"
            /\ metrics' = EmptyMetrics
            /\ UNCHANGED <<remainingBalance, emiValue, principalPaidPerMonth>>
       ELSE IF input.repaymentType = "emi"
       THEN LET e == emiValueOf(input)
            IN  IF IsNaN(e) \/ ~IsFinite(e)
                THEN /\ pc' = "done"
                     /\ metrics' = EmptyMetrics
                     /\ UNCHANGED <<remainingBalance, emiValue, principalPaidPerMonth>>
                ELSE /\ pc' = "loop"
                     /\ emiValue' = e.value
                     /\ remainingBalance' = input.principal
                     /\ UNCHANGED <<principalPaidPerMonth, metrics>>
       ELSE /\ pc' = "loop"
            /\ principalPaidPerMonth' = DivInt(input.principal, totalMonthsOf(input))
            /\ remainingBalance' = input.principal
            /\ UNCHANGED <<emiValue, metrics>>

\* One pass through the body of the for loop of the branch taken.
Iterate ==
    /\ pc = "loop"
    /\ LoopContinues(month, totalMonthsOf(input))
    /\ LET s == IF input.repaymentType = "emi"
                THEN emiStep(month, remainingBalance, emiValue,
                             monthlyRateOf(input), totalMonthsOf(input))
                ELSE eqStep(month, remainingBalance, principalPaidPerMonth,
                            monthlyRateOf(input), totalMonthsOf(input))
       IN  /\ schedule' = Append(schedule, s.row)
           /\ remainingBalance' = s.balance
    /\ month' = month + 1
    /\ UNCHANGED <<input, pc, emiValue, principalPaidPerMonth, metrics>>
    /\ UNCHANGED <<compareVars, toolVars>>

\* Loop exit and the return statement.
Return ==
    /\ pc = "loop"
    /\ ~LoopContinues(month, totalMonthsOf(input))
    /\ metrics' = summaryOf(input.principal, schedule)
    /\ pc' = "done"
    /\ UNCHANGED <<input, month, remainingBalance, emiValue, principalPaidPerMonth, schedule>>
    /\ UNCHANGED <<compareVars, toolVars>>

NextLoan == Enter \/ Iterate \/ Return

SpecLoan == InitLoan /\ [][NextLoan]_vars

\* --------------------------------------------- multi-loan comparison
MaxLoans == 3

Ids(scenarios) == {scenarios[i].id : i \in 1 .. Len(scenarios)}

\* loanScenarios.filter(l => l.id !== idToRemove)
RECURSIVE filterOut(_, _)
filterOut(scenarios, idToRemove) ==
    IF scenarios = <<>> THEN <<>>
    ELSE IF Head(scenarios).id = idToRemove
         THEN filterOut(Tail(scenarios), idToRemove)
         ELSE <<Head(scenarios)>> \o filterOut(Tail(scenarios), idToRemove)

\* loanScenarios.find(l => l.id === activeLoanId) || loanScenarios[0]
activeScenario ==
    IF activeLoanId \in Ids(loanScenarios)
    THEN loanScenarios[CHOOSE i \in 1 .. Len(loanScenarios) :
                           /\ loanScenarios[i].id = activeLoanId
                           /\ \A j \in 1 .. i - 1 : loanScenarios[j].id # activeLoanId]
    ELSE loanScenarios[1]

\* Values the three SliderInput widgets and the two mode buttons hand to
\* handleLoanChange: the lower end of each range and the default.
FieldValues ==
    [principal |-> {Num(100000), Num(DefaultPrincipal)},
     rate |-> {Pct(1), DefaultRate},
     tenure |-> {1, DefaultTenure},
     repaymentType |-> RepaymentTypes]

\* No call of calculateLoanMetrics is being followed.
InitEngineVars ==
    /\ input = NewLoan(1)
    /\ pc = "done"
    /\ month = 1
    /\ remainingBalance = 0
    /\ emiValue = 0
    /\ principalPaidPerMonth = 0
    /\ schedule = <<>>
    /\ metrics = EmptyMetrics

InitCompare ==
    /\ InitEngineVars
    /\ InitCompareVars
    /\ InitToolVars

addLoan_KeepCounter ==
    /\ Len(loanScenarios) = MaxLoans \/ nextId <= MaxId
    /\ IF Len(loanScenarios) < MaxLoans
       THEN /\ loanScenarios' = Append(loanScenarios, NewLoan(nextId))
            /\ activeLoanId' = nextId
            /\ nextId' = nextId
            /\ issuedIds' = issuedIds \cup {nextId}
       ELSE UNCHANGED <<loanScenarios, activeLoanId, nextId, issuedIds>>
    /\ lastOp' = [op |-> "addLoan", id |-> 0,
                 len |-> Len(loanScenarios), active |-> activeLoanId,
                 field |-> "none", value |-> 0]
    /\ UNCHANGED <<currentPage, changes>>
    /\ UNCHANGED <<engineVars, toolVars>>

addLoan_NoLimit ==
    /\ nextId <= MaxId
    /\ loanScenarios' = Append(loanScenarios, NewLoan(nextId))
    /\ activeLoanId' = nextId
    /\ nextId' = nextId + 1
    /\ issuedIds' = issuedIds \cup {nextId}
    /\ lastOp' = [op |-> "addLoan", id |-> 0,
                 len |-> Len(loanScenarios), active |-> activeLoanId,
                 field |-> "none", value |-> 0]
    /\ UNCHANGED <<currentPage, changes>>
    /\ UNCHANGED <<engineVars, toolVars>>

addLoan ==
    /\ Len(loanScenarios) = MaxLoans \/ nextId <= MaxId
    /\ IF Len(loanScenarios) < MaxLoans
       THEN /\ loanScenarios' = Append(loanScenarios, NewLoan(nextId))
            /\ activeLoanId' = nextId
            /\ nextId' = nextId + 1
            /\ issuedIds' = issuedIds \cup {nextId}
       ELSE UNCHANGED <<loanScenarios, activeLoanId, nextId, issuedIds>>
    /\ lastOp' = [op |-> "addLoan", id |-> 0,
                 len |-> Len(loanScenarios), active |-> activeLoanId,
                 field |-> "none", value |-> 0]
    /\ UNCHANGED <<currentPage, changes>>
    /\ UNCHANGED <<engineVars, toolVars>>

removeLoan_KeepActive(idToRemove) ==
    /\ IF Len(loanScenarios) > 1
       THEN /\ loanScenarios' = filterOut(loanScenarios, idToRemove)
            /\ UNCHANGED activeLoanId
       ELSE UNCHANGED <<loanScenarios, activeLoanId>>
    /\ lastOp' = [op |-> "removeLoan", id |-> idToRemove,
                 len |-> Len(loanScenarios), active |-> activeLoanId,
                 field |-> "none", value |-> 0]
    /\ UNCHANGED <<nextId, currentPage, issuedIds, changes>>
    /\ UNCHANGED <<engineVars, toolVars>>

removeLoan_StaleHead(idToRemove) ==
    /\ IF Len(loanScenarios) > 1
       THEN /\ loanScenarios' = filterOut(loanScenarios, idToRemove)
            /\ IF activeLoanId = idToRemove
               THEN activeLoanId' = loanScenarios[1].id
               ELSE UNCHANGED activeLoanId
       ELSE UNCHANGED <<loanScenarios, activeLoanId>>
    /\ lastOp' = [op |-> "removeLoan", id |-> idToRemove,
                 len |-> Len(loanScenarios), active |-> activeLoanId,
                 field |-> "none", value |-> 0]
    /\ UNCHANGED <<nextId, currentPage, issuedIds, changes>>
    /\ UNCHANGED <<engineVars, toolVars>>

removeLoan(idToRemove) ==
    /\ IF Len(loanScenarios) > 1
       THEN LET updatedScenarios == filterOut(loanScenarios, idToRemove)
            IN  /\ loanScenarios' = updatedScenarios
                /\ IF activeLoanId = idToRemove
                   THEN activeLoanId' = updatedScenarios[1].id
                   ELSE UNCHANGED activeLoanId
       ELSE UNCHANGED <<loanScenarios, activeLoanId>>
    /\ lastOp' = [op |-> "removeLoan", id |-> idToRemove,
                 len |-> Len(loanScenarios), active |-> activeLoanId,
                 field |-> "none", value |-> 0]
    /\ UNCHANGED <<nextId, currentPage, issuedIds, changes>>
    /\ UNCHANGED <<engineVars, toolVars>>

\* onClick={() => setActiveLoanId(loan.id)} of a loan tab
selectLoan(id) ==
    /\ activeLoanId' = id
    /\ lastOp' = [op |-> "selectLoan", id |-> id,
                 len |-> Len(loanScenarios), active |-> activeLoanId,
                 field |-> "none", value |-> 0]
    /\ UNCHANGED <<loanScenarios, nextId, currentPage, issuedIds, changes>>
    /\ UNCHANGED <<engineVars, toolVars>>

handleLoanChange_AllScenarios(id, field, value) ==
    /\ changes < MaxChanges
    /\ changes' = changes + 1
    /\ loanScenarios' =
           [i \in 1 .. Len(loanScenarios) |->
               [loanScenarios[i] EXCEPT ![field] = value]]
    /\ currentPage' = 1
    /\ lastOp' = [op |-> "handleLoanChange", id |-> id,
                 len |-> Len(loanScenarios), active |-> activeLoanId,
                 field |-> field, value |-> value]
    /\ UNCHANGED <<activeLoanId, nextId, issuedIds>>
    /\ UNCHANGED <<engineVars, toolVars>>

handleLoanChange(id, field, value) ==
    /\ changes < MaxChanges
    /\ changes' = changes + 1
    /\ loanScenarios' =
           [i \in 1 .. Len(loanScenarios) |->
               IF loanScenarios[i].id = id
               THEN [loanScenarios[i] EXCEPT ![field] = value]
               ELSE loanScenarios[i]]
    /\ currentPage' = 1
    /\ lastOp' = [op |-> "handleLoanChange", id |-> id,
                 len |-> Len(loanScenarios), active |-> activeLoanId,
                 field |-> field, value |-> value]
    /\ UNCHANGED <<activeLoanId, nextId, issuedIds>>
    /\ UNCHANGED <<engineVars, toolVars>>

\* const rowsPerPage = 12
rowsPerPage == 12

\* calculateLoanMetrics(scenario).amortizationSchedule.length: no row when
\* the guard fires or the installment is not finite, totalMonths otherwise.
scheduleLengthOf(scenario) ==
    IF InvalidInput(scenario) THEN 0
    ELSE IF scenario.repaymentType = "emi" /\ ~IsFinite(emiValueOf(scenario)) THEN 0
    ELSE totalMonthsOf(scenario)

\* Math.ceil(activeLoan.amortizationSchedule.length / rowsPerPage)
totalPages == (scheduleLengthOf(activeScenario) + rowsPerPage - 1) \div rowsPerPage

\* paginatedData.length: the rows of slice(startIndex, startIndex + rowsPerPage)
paginatedLength ==
    LET startIndex == (currentPage - 1) * rowsPerPage
        left == scheduleLengthOf(activeScenario) - startIndex
    IN  IF left <= 0 THEN 0 ELSE IF left > rowsPerPage THEN rowsPerPage ELSE left

\* The Next button: shown with the table, which is rendered only while
\* paginatedData has rows, and disabled on the last page.  The walk through
\* the pages is followed up to page MaxPage.
nextPage ==
    /\ currentPage < MaxPage
    /\ paginatedLength > 0
    /\ LET pages == totalPages
       IN  /\ currentPage # pages
           /\ currentPage' = IF currentPage + 1 < pages THEN currentPage + 1 ELSE pages
    /\ lastOp' = [op |-> "nextPage", id |-> 0,
                 len |-> Len(loanScenarios), active |-> activeLoanId,
                 field |-> "none", value |-> 0]
    /\ UNCHANGED <<loanScenarios, activeLoanId, nextId, issuedIds, changes>>
    /\ UNCHANGED <<engineVars, toolVars>>

\* The Previous button, disabled on page 1.
previousPage ==
    /\ currentPage # 1
    /\ paginatedLength > 0
    /\ currentPage' = IF currentPage - 1 > 1 THEN currentPage - 1 ELSE 1
    /\ lastOp' = [op |-> "previousPage", id |-> 0,
                 len |-> Len(loanScenarios), active |-> activeLoanId,
                 field |-> "none", value |-> 0]
    /\ UNCHANGED <<loanScenarios, activeLoanId, nextId, issuedIds, changes>>
    /\ UNCHANGED <<engineVars, toolVars>>

\* The handlers as the rendered controls call them: one tab and one remove
\* button per scenario, the sliders and mode buttons of the active scenario.
AddLoanClick == addLoan

RemoveLoanClick == \E id \in Ids(loanScenarios) : removeLoan(id)

SelectLoanClick == \E id \in Ids(loanScenarios) : selectLoan(id)

LoanChange ==
    \E field \in DOMAIN FieldValues : \E value \in FieldValues[field] :
        handleLoanChange(activeScenario.id, field, value)

NextPageClick == nextPage

PreviousPageClick == previousPage

NextCompare ==
    \/ AddLoanClick
    \/ RemoveLoanClick
    \/ SelectLoanClick
    \/ LoanChange
    \/ NextPageClick
    \/ PreviousPageClick

SpecCompare == InitCompare /\ [][NextCompare]_vars

\* ------------------------------------------------------ SipCalculator
\* Math.round of a number that may be NaN
RoundN(x) == IF x.kind = "finite" THEN Fin(Round(x.value)) ELSE x

\* x - v for a number x that may be NaN
SubN(x, v) == IF x.kind = "finite" THEN Fin(x.value - v) ELSE x

\* const r = returnRate / 12 / 100
sipMonthlyRate(rate) == DivInt(DivInt(rate, 12), 100)

SipGuard_ZeroRate(p, r, n) == p <= 0 \/ r <= 0 \/ n <= 0

\* if (p <= 0 || r < 0 || n <= 0), and the same test on years
SipGuard(p, r, n) == p <= 0 \/ r < 0 \/ n <= 0

\* p * ((Math.pow(1 + r, n) - 1) / r) * (1 + r), for p > 0, r >= 0, n > 0.
\* With r = 0 the quotient is 0 / 0.
futureValueOf(p, r, n) ==
    LET grown == Pow(RateScale + r, n) - RateScale
    IN  IF r = 0 THEN NaN
        ELSE Fin(Mul(Mul(p, Div(grown, r)), RateScale + r))

\* The first useMemo: the summary.
sipSummaryOf(p, rate, years) ==
    LET r == sipMonthlyRate(rate)
        n == years * 12
    IN  IF SipGuard(p, r, n)
        THEN [totalValue |-> Fin(p * n), investedAmount |-> p * n,
              estimatedReturns |-> Fin(0)]
        ELSE LET futureValue == futureValueOf(p, r, n)
                 totalInvested == p * n
                 returns == SubN(futureValue, totalInvested)
             IN  [totalValue |-> RoundN(futureValue),
                  investedAmount |-> Round(totalInvested),
                  estimatedReturns |-> RoundN(returns)]

sipRow_YearsInvested(p, r, year) ==
    LET n == year * 12
        futureValue == futureValueOf(p, r, n)
        totalInvested == p * year
        returns == SubN(futureValue, totalInvested)
    IN  [year |-> year,
         investedAmount |-> Round(totalInvested),
         estimatedReturns |-> RoundN(returns),
         totalValue |-> RoundN(futureValue)]

\* The row pushed by one pass of the loop over the years.
sipRow(p, r, year) ==
    LET n == year * 12
        futureValue == futureValueOf(p, r, n)
        totalInvested == p * n
        returns == SubN(futureValue, totalInvested)
    IN  [year |-> year,
         investedAmount |-> Round(totalInvested),
         estimatedReturns |-> RoundN(returns),
         totalValue |-> RoundN(futureValue)]

yearlyProjectionOf_Exclusive(p, rate, years) ==
    LET r == sipMonthlyRate(rate)
    IN  IF SipGuard(p, r, years) THEN <<>>
        ELSE [year \in 1 .. years - 1 |-> sipRow(p, r, year)]

\* The second useMemo: for (let year = 1; year <= years; year++) push a row.
yearlyProjectionOf(p, rate, years) ==
    LET r == sipMonthlyRate(rate)
    IN  IF SipGuard(p, r, years) THEN <<>>
        ELSE [year \in 1 .. years |-> sipRow(p, r, year)]

\* Inputs of the SIP engine: below, at and inside the slider ranges, a
\* contribution that is not a whole number of units, a positive rate that
\* underflows to a monthly rate of 0, and the defaults 10000 / 12 / 15.
SipContributions == {0 - Num(500), 0, Num(500), Num(500) + 10, Num(10000)}

SipRates == {0 - Pct(1), 0, 1, Pct(1), Pct(12)}

SipYears == ((0 - 1) .. MaxYears) \cup {15}

InitSip ==
    /\ monthlyInvestment \in SipContributions
    /\ returnRate \in SipRates
    /\ timePeriod \in SipYears
    /\ sipPc = "start"
    /\ sipBranch = "none"
    /\ sipSummary = [totalValue |-> Fin(0), investedAmount |-> 0,
                     estimatedReturns |-> Fin(0)]
    /\ yearlyProjection = <<>>
    /\ InitEngineVars
    /\ InitCompareVars
    /\ InitInterestVars
    /\ InitSliderVars

SipSummary ==
    /\ sipPc = "start"
    /\ sipSummary' = sipSummaryOf(monthlyInvestment, returnRate, timePeriod)
    /\ sipBranch' = IF SipGuard(monthlyInvestment, sipMonthlyRate(returnRate),
                                timePeriod * 12)
                    THEN "guard" ELSE "formula"
    /\ sipPc' = "summary"
    /\ UNCHANGED <<monthlyInvestment, returnRate, timePeriod, yearlyProjection>>
    /\ UNCHANGED <<engineVars, compareVars, interestVars, sliderVars>>

SipProjection ==
    /\ sipPc = "summary"
    /\ yearlyProjection' = yearlyProjectionOf(monthlyInvestment, returnRate, timePeriod)
    /\ sipPc' = "done"
    /\ UNCHANGED <<monthlyInvestment, returnRate, timePeriod, sipBranch, sipSummary>>
    /\ UNCHANGED <<engineVars, compareVars, interestVars, sliderVars>>

NextSip == SipSummary \/ SipProjection

SpecSip == InitSip /\ [][NextSip]_vars

\* ------------------------------------------------- InterestCalculator
simpleInterestOf_RoundThenAdd(p, r, t) ==
    IF p <= 0 \/ r <= 0 \/ t <= 0
    THEN [totalInterest |-> 0, totalAmount |-> 0]
    ELSE LET simpleInterest == DivInt(Mul(p, r) * t, 100)
         IN  [totalInterest |-> Round(simpleInterest),
              totalAmount |-> p + Round(simpleInterest)]

\* The useMemo body: the guard, (p * r * t) / 100, p + simpleInterest and
\* the two Math.round.
simpleInterestOf(p, r, t) ==
    IF p <= 0 \/ r <= 0 \/ t <= 0
    THEN [totalInterest |-> 0, totalAmount |-> 0]
    ELSE LET simpleInterest == DivInt(Mul(p, r) * t, 100)
             amount == p + simpleInterest
         IN  [totalInterest |-> Round(simpleInterest),
              totalAmount |-> Round(amount)]

\* Inputs of the simple-interest engine: below, at and inside the slider
\* ranges, a principal that is not a whole number of units, rates on the
\* slider's quarter-percent grid, and the defaults 100000 / 6 / 5.
QuarterPct == RateScale \div 4

InterestPrincipals == {0 - Num(1000), 0, Num(1000), Num(1000) + 50, Num(100000)}

InterestRates == {0 - Pct(1), 0, Pct(1), 5 * QuarterPct, Pct(6)}

InterestTimes == ((0 - 1) .. MaxYears) \cup {5}

InitInterest ==
    /\ siPrincipal \in InterestPrincipals
    /\ siRate \in InterestRates
    /\ siTime \in InterestTimes
    /\ siPc = "start"
    /\ siResult = [totalInterest |-> 0, totalAmount |-> 0]
    /\ InitEngineVars
    /\ InitCompareVars
    /\ InitSipVars
    /\ InitSliderVars

InterestMemo ==
    /\ siPc = "start"
    /\ siResult' = simpleInterestOf(siPrincipal, siRate, siTime)
    /\ siPc' = "done"
    /\ UNCHANGED <<siPrincipal, siRate, siTime>>
    /\ UNCHANGED <<engineVars, compareVars, sipVars, sliderVars>>

NextInterest == InterestMemo

SpecInterest == InitInterest /\ [][NextInterest]_vars

\* -------------------------------------------------------- SliderInput
\* A text is a sequence of characters.
DigitChars == <<"0", "1", "2", "3", "4", "5", "6", "7", "8", "9">>

IsDigit(c) == \E d \in 1 .. 10 : DigitChars[d] = c

DigitOf(c) == (CHOOSE d \in 1 .. 10 : DigitChars[d] = c) - 1

\* Number of digits a text starts with.
RECURSIVE LeadingDigits(_)
LeadingDigits(text) ==
    IF text = <<>> \/ ~IsDigit(Head(text)) THEN 0
    ELSE 1 + LeadingDigits(Tail(text))

\* The number a text of digits denotes.
RECURSIVE DigitsValue(_)
DigitsValue(digits) ==
    IF digits = <<>> THEN 0
    ELSE 10 * DigitsValue(SubSeq(digits, 1, Len(digits) - 1))
         + DigitOf(digits[Len(digits)])

\* parseFloat: an optional sign, digits, an optional point and digits; what
\* follows is ignored; NaN when no digit was read.  (White space, exponents
\* and "Infinity" are outside the texts considered; digits past the third
\* decimal are dropped.)
parseFloat(text) ==
    LET signed == text # <<>> /\ Head(text) \in {"-", "+"}
        body == IF signed THEN Tail(text) ELSE text
        intLen == LeadingDigits(body)
        rest == SubSeq(body, intLen + 1, Len(body))
        hasPoint == rest # <<>> /\ Head(rest) = "."
        fracAll == IF hasPoint THEN LeadingDigits(Tail(rest)) ELSE 0
        fracLen == IF fracAll > 3 THEN 3 ELSE fracAll
        magnitude == DigitsValue(SubSeq(body, 1, intLen)) * WidgetScale
                     + DigitsValue(SubSeq(rest, 2, 1 + fracLen)) * 10^(3 - fracLen)
    IN  IF intLen = 0 /\ fracAll = 0 THEN NaN
        ELSE IF signed /\ Head(text) = "-" THEN Fin(0 - magnitude)
        ELSE Fin(magnitude)

\* The decimal digits of a natural number.
RECURSIVE NatToString(_)
NatToString(n) ==
    IF n < 10 THEN <<DigitChars[n + 1]>>
    ELSE NatToString(n \div 10) \o <<DigitChars[(n % 10) + 1]>>

\* The decimals of f / WidgetScale without trailing zeros.
FracToString(f) ==
    IF f % 100 = 0 THEN <<DigitChars[(f \div 100) + 1]>>
    ELSE IF f % 10 = 0
    THEN <<DigitChars[(f \div 100) + 1], DigitChars[((f \div 10) % 10) + 1]>>
    ELSE <<DigitChars[(f \div 100) + 1], DigitChars[((f \div 10) % 10) + 1],
           DigitChars[(f % 10) + 1]>>

\* Number.prototype.toString
toString(v) ==
    LET a == IF v < 0 THEN 0 - v ELSE v
        whole == NatToString(a \div WidgetScale)
        digits == IF a % WidgetScale = 0 THEN whole
                  ELSE whole \o <<".">> \o FracToString(a % WidgetScale)
    IN  IF v < 0 THEN <<"-">> \o digits ELSE digits

\* The useEffect on [value]: when the value prop has changed and the text
\* does not parse to it, the text becomes value.toString().
syncEffect(text, oldValue, newValue) ==
    IF newValue # oldValue /\ parseFloat(text) # Fin(newValue)
    THEN toString(newValue)
    ELSE text

handleInputChange_NoRangeCheck(text) ==
    LET numValue == parseFloat(text)
        accepted == numValue.kind # "NaN"
        newValue == IF accepted THEN numValue.value ELSE sliderValue
    IN  /\ inputValue' = syncEffect(text, sliderValue, newValue)
        /\ sliderValue' = newValue
        /\ widgetOp' = [op |-> "handleInputChange", text |-> text,
                        called |-> accepted,
                        arg |-> IF accepted THEN numValue.value ELSE 0]
        /\ UNCHANGED <<min, max>>
        /\ UNCHANGED <<engineVars, compareVars, sipVars, interestVars>>

\* onChange of the number input; onChange(numValue) sets the parent's value.
handleInputChange(text) ==
    LET numValue == parseFloat(text)
        accepted == /\ numValue.kind # "NaN"
                    /\ numValue.value >= min
                    /\ numValue.value <= max
        newValue == IF accepted THEN numValue.value ELSE sliderValue
    IN  /\ inputValue' = syncEffect(text, sliderValue, newValue)
        /\ sliderValue' = newValue
        /\ widgetOp' = [op |-> "handleInputChange", text |-> text,
                        called |-> accepted,
                        arg |-> IF accepted THEN numValue.value ELSE 0]
        /\ UNCHANGED <<min, max>>
        /\ UNCHANGED <<engineVars, compareVars, sipVars, interestVars>>

handleInputBlur_NoUpperClamp ==
    LET parsed == parseFloat(inputValue)
        numValue == IF parsed.kind = "NaN" \/ parsed.value < min THEN min
                    ELSE parsed.value
    IN  /\ inputValue' = syncEffect(toString(numValue), sliderValue, numValue)
        /\ sliderValue' = numValue
        /\ widgetOp' = [op |-> "handleInputBlur", text |-> inputValue,
                        called |-> (sliderValue # numValue),
                        arg |-> IF sliderValue # numValue THEN numValue ELSE 0]
        /\ UNCHANGED <<min, max>>
        /\ UNCHANGED <<engineVars, compareVars, sipVars, interestVars>>

\* onBlur of the number input (Enter blurs it).
handleInputBlur ==
    LET parsed == parseFloat(inputValue)
        numValue == IF parsed.kind = "NaN" \/ parsed.value < min THEN min
                    ELSE IF parsed.value > max THEN max
                    ELSE parsed.value
    IN  /\ inputValue' = syncEffect(toString(numValue), sliderValue, numValue)
        /\ sliderValue' = numValue
        /\ widgetOp' = [op |-> "handleInputBlur", text |-> inputValue,
                        called |-> (sliderValue # numValue),
                        arg |-> IF sliderValue # numValue THEN numValue ELSE 0]
        /\ UNCHANGED <<min, max>>
        /\ UNCHANGED <<engineVars, compareVars, sipVars, interestVars>>

\* onChange of the range input; its value is the text of a number.
handleSliderChange(text) ==
    LET numValue == parseFloat(text).value
    IN  /\ inputValue' = syncEffect(toString(numValue), sliderValue, numValue)
        /\ sliderValue' = numValue
        /\ widgetOp' = [op |-> "handleSliderChange", text |-> text,
                        called |-> TRUE, arg |-> numValue]
        /\ UNCHANGED <<min, max>>
        /\ UNCHANGED <<engineVars, compareVars, sipVars, interestVars>>

\* The parent re-renders the widget with another value (the parameter of
\* another loan): only the useEffect runs.
valueProp(v) ==
    /\ v # sliderValue
    /\ sliderValue' = v
    /\ inputValue' = syncEffect(inputValue, sliderValue, v)
    /\ widgetOp' = [op |-> "valueProp", text |-> inputValue,
                    called |-> FALSE, arg |-> 0]
    /\ UNCHANGED <<min, max>>
    /\ UNCHANGED <<engineVars, compareVars, sipVars, interestVars>>

\* Characters that can be typed, and the texts of up to MaxText of them.
TypedChars == {"-", ".", "1", "9", "a"}

TypedTexts == UNION {[1 .. n -> TypedChars] : n \in 0 .. MaxText}

\* [min, max] of the widgets considered, one of them with min = max.
Ranges == {<<9, 11>>, <<9, 9>>}

\* The values a range input offers: min, min + step, ... up to max (step 1).
SliderValues == {v \in min .. max : (v - min) % WidgetScale = 0}

InitSlider ==
    /\ \E range \in Ranges :
           /\ min = range[1] * WidgetScale
           /\ max = range[2] * WidgetScale
    /\ sliderValue \in {min, max}
    /\ inputValue = toString(sliderValue)
    /\ widgetOp = NoWidgetOp
    /\ InitEngineVars
    /\ InitCompareVars
    /\ InitSipVars
    /\ InitInterestVars

InputChange == \E text \in TypedTexts : handleInputChange(text)

InputBlur == handleInputBlur

SliderChange == \E v \in SliderValues : handleSliderChange(toString(v))

ValueProp == \E v \in SliderValues : valueProp(v)

NextSlider == InputChange \/ InputBlur \/ SliderChange \/ ValueProp

SpecSlider == InitSlider /\ [][NextSlider]_vars

\* ------------------------------------------------- engine properties
Abs(x) == IF x < 0 THEN 0 - x ELSE x

\* principal > 0, rate > 0, tenureYears > 0
ValidInput == input.principal > 0 /\ input.rate > 0 /\ input.tenure > 0

Returned == pc = "done"

Rows == metrics.amortizationSchedule

\* The installment formula gave a number (always so outside 'emi' mode,
\* where no installment is computed).
FiniteInstallment ==
    input.repaymentType = "emi" => emiValueOf(input).kind = "finite"

RECURSIVE SumPrincipalPaid(_, _, _)
SumPrincipalPaid(rows, lo, hi) ==
    IF lo > hi THEN 0
    ELSE IF lo = hi THEN rows[lo].principalPaid
    ELSE LET mid == (lo + hi) \div 2
         IN  SumPrincipalPaid(rows, lo, mid) + SumPrincipalPaid(rows, mid + 1, hi)

RECURSIVE SumInterestPaid(_, _, _)
SumInterestPaid(rows, lo, hi) ==
    IF lo > hi THEN 0
    ELSE IF lo = hi THEN rows[lo].interestPaid
    ELSE LET mid == (lo + hi) \div 2
         IN  SumInterestPaid(rows, lo, mid) + SumInterestPaid(rows, mid + 1, hi)

\* r is x rounded to the nearest whole currency unit, halves upwards.
IsRounded(r, x) ==
    /\ r % MoneyScale = 0
    /\ 2 * (r - x) <= MoneyScale
    /\ 2 * (x - r) < MoneyScale

PrincipalRepaid ==
    /\ Len(Rows) > 0
    /\ Abs(SumPrincipalPaid(Rows, 1, Len(Rows)) - input.principal) <= MoneyScale
    /\ Rows[Len(Rows)].remainingBalance = 0

\* C1 as stated: for every valid input in 'emi' mode the principalPaid of
\* all rows add up to principal within 1 unit and the final row's
\* remainingBalance is exactly 0.
C1_Original ==
    (Returned /\ ValidInput /\ input.repaymentType = "emi") => PrincipalRepaid

\* C1 amended: for every valid input in 'emi' mode whose installment is
\* finite, the principalPaid of all rows add up to principal within 1 unit
\* and the final row's remainingBalance is exactly 0.
C1_PrincipalRepaid ==
    (Returned /\ ValidInput /\ input.repaymentType = "emi" /\ FiniteInstallment)
        => PrincipalRepaid

\* A two-year 'emi' schedule has been returned whose last row repaid a
\* balance different from installment - interest: the final-month
\* adjustment absorbed a drift.
C1_Witness ==
    /\ Returned /\ ValidInput /\ input.repaymentType = "emi"
    /\ Len(Rows) = 24
    /\ Rows[24].principalPaid # emiValue - Rows[24].interestPaid
    /\ Rows[24].remainingBalance = 0
    /\ SumPrincipalPaid(Rows, 1, 24) = input.principal

\* C2 as stated: for every valid input, in either mode, the recorded
\* remainingBalance never increases from one row to the next, is never
\* negative, and is exactly 0 in the final row.
C2_BalanceReachesZero ==
    (Returned /\ ValidInput) =>
        /\ \A i \in 1 .. Len(Rows) : Rows[i].remainingBalance >= 0
        /\ \A i \in 1 .. Len(Rows) - 1 :
               Rows[i + 1].remainingBalance <= Rows[i].remainingBalance
        /\ Len(Rows) > 0 => Rows[Len(Rows)].remainingBalance = 0

\* C3: for every valid input in 'equalPrincipal' mode every row's
\* principalPaid is the same value, the quotient principal / totalMonths
\* (to the nearest representable amount), and totalPayment never increases
\* with the period index.
C3_EqualPrincipalRows ==
    (Returned /\ ValidInput /\ input.repaymentType = "equalPrincipal") =>
        /\ \A i \in 1 .. Len(Rows) :
               /\ Rows[i].principalPaid = Rows[1].principalPaid
               /\ 2 * Abs(Rows[i].principalPaid * (input.tenure * 12) - input.principal)
                      <= input.tenure * 12
        /\ \A i \in 1 .. Len(Rows) - 1 :
               Rows[i + 1].totalPayment <= Rows[i].totalPayment

\* A full 'equalPrincipal' schedule has been returned whose payments fell
\* from the first row to the last and whose quotient was inexact.
C3_Witness ==
    /\ Returned /\ ValidInput /\ input.repaymentType = "equalPrincipal"
    /\ Len(Rows) = input.tenure * 12
    /\ Rows[Len(Rows)].totalPayment < Rows[1].totalPayment
    /\ Rows[1].principalPaid * Len(Rows) # input.principal

\* C4: the engine returns the empty schedule with firstPayment,
\* totalInterest and totalPayment 0 whenever principal <= 0 or rate <= 0 or
\* tenure <= 0, and whenever the installment computed in 'emi' mode is not
\* finite; what it returns is never a partial schedule.
C4_EmptyOnGuard ==
    Returned =>
        /\ (input.principal <= 0 \/ input.rate <= 0 \/ input.tenure <= 0)
               => metrics = EmptyMetrics
        /\ (ValidInput /\ ~FiniteInstallment) => metrics = EmptyMetrics
        /\ Len(Rows) \in {0, input.tenure * 12}

\* The guard has fired on a zero principal with a positive rate and tenure.
C4_Witness ==
    /\ Returned
    /\ input.principal = 0 /\ input.rate > 0 /\ input.tenure > 0
    /\ metrics = EmptyMetrics

RowsNumbered ==
    /\ Len(Rows) = input.tenure * 12
    /\ \A i \in 1 .. Len(Rows) : Rows[i].month = i

\* C5 as stated: for every valid input, in either mode, the schedule has
\* exactly tenureYears * 12 rows, numbered 1, 2, ... in that order.
C5_Original == (Returned /\ ValidInput) => RowsNumbered

\* C5 amended: for every valid input whose installment is finite (always so
\* in 'equalPrincipal' mode) the schedule has exactly tenureYears * 12 rows,
\* numbered 1, 2, ... in that order; with a non-finite installment the
\* schedule is empty.
C5_RowsNumbered ==
    /\ (Returned /\ ValidInput /\ FiniteInstallment) => RowsNumbered
    /\ (Returned /\ ValidInput /\ ~FiniteInstallment) => Rows = <<>>

\* A two-year schedule of 24 rows has been returned.
C5_Witness ==
    /\ Returned /\ ValidInput /\ input.tenure = 2
    /\ Len(Rows) = 24
    /\ Rows[24].month = 24

\* C6 as stated: for every valid input, totalInterest is the rounded sum of
\* interestPaid over all rows, totalPayment equals principal + totalInterest,
\* and firstPayment is the rounded totalPayment of the first row.
C6_Original ==
    (Returned /\ ValidInput) =>
        /\ IsRounded(metrics.totalInterest, SumInterestPaid(Rows, 1, Len(Rows)))
        /\ metrics.totalPayment = input.principal + metrics.totalInterest
        /\ Len(Rows) > 0
        /\ IsRounded(metrics.firstPayment, Rows[1].totalPayment)

\* C6 amended: for every valid input whose installment is finite,
\* totalInterest is the rounded sum of interestPaid over all rows,
\* totalPayment is the rounded value of principal + the unrounded sum of
\* interestPaid, and firstPayment is the rounded totalPayment of the first
\* row.
C6_Summary ==
    (Returned /\ ValidInput /\ FiniteInstallment) =>
        /\ IsRounded(metrics.totalInterest, SumInterestPaid(Rows, 1, Len(Rows)))
        /\ IsRounded(metrics.totalPayment,
                     input.principal + SumInterestPaid(Rows, 1, Len(Rows)))
        /\ Len(Rows) > 0
        /\ IsRounded(metrics.firstPayment, Rows[1].totalPayment)

\* A summary has been returned for a principal that is not a whole number
\* of units: totalPayment is whole and differs from principal + totalInterest.
C6_Witness ==
    /\ Returned /\ ValidInput /\ Len(Rows) > 0
    /\ input.principal % MoneyScale # 0
    /\ metrics.totalPayment # input.principal + metrics.totalInterest
    /\ metrics.totalInterest > 0

\* ---------------------------------------------- comparison properties
\* C7: add is a no-op (collection, active id and id counter unchanged)
\* when the collection already holds 3 scenarios; otherwise it appends
\* exactly one scenario at the end, with an id no existing scenario holds,
\* and makes it the active one.
C7_AddLoan ==
    [][lastOp'.op = "addLoan" =>
          IF Len(loanScenarios) = 3
          THEN UNCHANGED <<loanScenarios, activeLoanId, nextId>>
          ELSE /\ Len(loanScenarios') = Len(loanScenarios) + 1
               /\ SubSeq(loanScenarios', 1, Len(loanScenarios)) = loanScenarios
               /\ loanScenarios'[Len(loanScenarios')].id \notin Ids(loanScenarios)
               /\ activeLoanId' = loanScenarios'[Len(loanScenarios')].id]_vars

\* add has run on a full collection and left its 3 scenarios in place.
C7_Witness ==
    /\ lastOp.op = "addLoan"
    /\ lastOp.len = 3
    /\ Len(loanScenarios) = 3
    /\ activeLoanId = lastOp.active

\* C8: remove(id) is a no-op when the collection holds only 1 scenario;
\* otherwise it removes exactly the scenario with that id and keeps the
\* others in order; if the removed scenario was the active one the first
\* remaining scenario becomes active, otherwise the active id is unchanged.
C8_RemoveLoan ==
    [][lastOp'.op = "removeLoan" =>
          IF Len(loanScenarios) = 1
          THEN UNCHANGED <<loanScenarios, activeLoanId>>
          ELSE /\ Len(loanScenarios') = Len(loanScenarios) - 1
               /\ \E k \in 1 .. Len(loanScenarios) :
                      /\ loanScenarios[k].id = lastOp'.id
                      /\ \A i \in 1 .. k - 1 : loanScenarios'[i] = loanScenarios[i]
                      /\ \A i \in k .. Len(loanScenarios') :
                             loanScenarios'[i] = loanScenarios[i + 1]
               /\ activeLoanId = lastOp'.id => activeLoanId' = loanScenarios'[1].id
               /\ activeLoanId # lastOp'.id => activeLoanId' = activeLoanId]_vars

\* The active scenario of a collection of 3 has been removed and the first
\* of the 2 remaining is active.
C8_Witness ==
    /\ lastOp.op = "removeLoan"
    /\ lastOp.len = 3
    /\ lastOp.active = lastOp.id
    /\ Len(loanScenarios) = 2
    /\ lastOp.id \notin Ids(loanScenarios)
    /\ activeLoanId = loanScenarios[1].id

\* C9: the collection always holds at least 1 and at most 3 scenarios, its
\* ids are pairwise distinct, and the id counter is greater than every id
\* ever issued, so that no id is assigned twice.
C9_IdsUnique ==
    /\ Len(loanScenarios) >= 1
    /\ Len(loanScenarios) <= 3
    /\ \A i, j \in 1 .. Len(loanScenarios) :
           loanScenarios[i].id = loanScenarios[j].id => i = j
    /\ Ids(loanScenarios) \subseteq issuedIds
    /\ \A id \in issuedIds : id < nextId

\* Three scenarios are held after an earlier one was removed: the id
\* given last is fresh although the collection had room again.
C9_Witness ==
    /\ Len(loanScenarios) = 3
    /\ Cardinality(issuedIds) = 4
    /\ Cardinality(Ids(loanScenarios)) = 3
    /\ nextId = 5

\* C10: the active loan id is always the id of exactly one scenario in the
\* collection.
C10_ActiveExists ==
    Cardinality({i \in 1 .. Len(loanScenarios) : loanScenarios[i].id = activeLoanId}) = 1

\* The active scenario, first in a collection of 2, has been removed and
\* the scenario left is the active one.
C10_Witness ==
    /\ lastOp.op = "removeLoan"
    /\ lastOp.len = 2
    /\ lastOp.active = lastOp.id
    /\ lastOp.id < loanScenarios[1].id
    /\ Len(loanScenarios) = 1
    /\ activeLoanId = loanScenarios[1].id

\* C11: update(id, field, value) changes only the named field of the
\* scenario with that id: every other field of that scenario, every other
\* scenario, the collection order and length, the active id and the id
\* counter are unchanged, and the amortization table's current page is
\* reset to 1.
C11_HandleLoanChange ==
    [][lastOp'.op = "handleLoanChange" =>
          /\ Len(loanScenarios') = Len(loanScenarios)
          /\ \A i \in 1 .. Len(loanScenarios) :
                 IF loanScenarios[i].id = lastOp'.id
                 THEN /\ loanScenarios'[i][lastOp'.field] = lastOp'.value
                      /\ \A g \in DOMAIN loanScenarios[i] \ {lastOp'.field} :
                             loanScenarios'[i][g] = loanScenarios[i][g]
                 ELSE loanScenarios'[i] = loanScenarios[i]
          /\ UNCHANGED <<activeLoanId, nextId>>
          /\ currentPage' = 1]_vars

\* The tenure of the active scenario, second of 2, has been set to 1 year:
\* the first scenario keeps the default tenure and the updated one its
\* other defaults.
C11_Witness ==
    /\ lastOp.op = "handleLoanChange"
    /\ lastOp.field = "tenure" /\ lastOp.value = 1
    /\ Len(loanScenarios) = 2
    /\ loanScenarios[2].id = lastOp.id
    /\ loanScenarios[2].tenure = 1
    /\ loanScenarios[2].principal = Num(DefaultPrincipal)
    /\ loanScenarios[1] = NewLoan(loanScenarios[1].id)
    /\ currentPage = 1

\* ----------------------------------------------------- SIP properties
\* monthlyContribution > 0, tenureYears > 0, annual return rate >= 0
ValidSip == monthlyInvestment > 0 /\ timePeriod > 0 /\ returnRate >= 0

SipDone == sipPc = "done"

\* C12: for every valid SIP input, the last row of the yearly series
\* (year = tenureYears) has the same investedAmount, estimatedReturns and
\* totalValue as the summary result.
C12_LastRowIsSummary ==
    (SipDone /\ ValidSip) =>
        /\ Len(yearlyProjection) = timePeriod
        /\ yearlyProjection[timePeriod].year = timePeriod
        /\ yearlyProjection[timePeriod].investedAmount = sipSummary.investedAmount
        /\ yearlyProjection[timePeriod].estimatedReturns = sipSummary.estimatedReturns
        /\ yearlyProjection[timePeriod].totalValue = sipSummary.totalValue

\* The default plan 10000 / 12 % / 15 years has been projected: row 15
\* carries the summary, a value above what was invested.
C12_Witness ==
    /\ SipDone
    /\ monthlyInvestment = Num(10000) /\ returnRate = Pct(12) /\ timePeriod = 15
    /\ Len(yearlyProjection) = 15
    /\ sipSummary.totalValue.kind = "finite"
    /\ sipSummary.totalValue.value > sipSummary.investedAmount
    /\ yearlyProjection[15].totalValue = sipSummary.totalValue
    /\ yearlyProjection[14].totalValue # sipSummary.totalValue

\* C13 as stated: for every valid SIP input and every year y in
\* 1..tenureYears, the investedAmount of the row for year y equals
\* monthlyContribution * 12 * y exactly.
C13_Original ==
    (SipDone /\ ValidSip) =>
        \A y \in 1 .. timePeriod :
            /\ y <= Len(yearlyProjection)
            /\ yearlyProjection[y].investedAmount = monthlyInvestment * 12 * y

\* C13 amended: for every valid SIP input and every year y in
\* 1..tenureYears, the investedAmount of the row for year y is
\* monthlyContribution * 12 * y rounded to the nearest whole unit; it
\* equals monthlyContribution * 12 * y exactly when that product is a whole
\* number.
C13_InvestedRounded ==
    (SipDone /\ ValidSip) =>
        \A y \in 1 .. timePeriod :
            /\ y <= Len(yearlyProjection)
            /\ IsRounded(yearlyProjection[y].investedAmount, monthlyInvestment * 12 * y)
            /\ (monthlyInvestment * 12 * y) % MoneyScale = 0
                   => yearlyProjection[y].investedAmount = monthlyInvestment * 12 * y

\* A contribution of 500.10 has been projected over 2 years: the rows
\* show 6001 and 12002 for 6001.20 and 12002.40 invested.
C13_Witness ==
    /\ SipDone /\ ValidSip
    /\ monthlyInvestment = Num(500) + 10 /\ timePeriod = 2
    /\ Len(yearlyProjection) = 2
    /\ yearlyProjection[1].investedAmount = Num(6001)
    /\ yearlyProjection[2].investedAmount = Num(12002)
    /\ monthlyInvestment * 12 * 2 = Num(12002) + 40

\* C14 as stated: for every valid SIP input, every row of the yearly series
\* satisfies totalValue = investedAmount + estimatedReturns within rounding
\* (a difference of at most 1 unit), and both investedAmount and totalValue
\* are non-decreasing as year increases.
C14_RowsConsistent ==
    (SipDone /\ ValidSip) =>
        /\ \A y \in 1 .. Len(yearlyProjection) :
               /\ yearlyProjection[y].totalValue.kind = "finite"
               /\ yearlyProjection[y].estimatedReturns.kind = "finite"
               /\ Abs(yearlyProjection[y].totalValue.value
                        - (yearlyProjection[y].investedAmount
                           + yearlyProjection[y].estimatedReturns.value)) <= MoneyScale
        /\ \A y \in 1 .. Len(yearlyProjection) - 1 :
               /\ yearlyProjection[y].investedAmount
                      <= yearlyProjection[y + 1].investedAmount
               /\ yearlyProjection[y].totalValue.value
                      <= yearlyProjection[y + 1].totalValue.value

\* C15: the SIP engine takes its guard branch (totalValue = investedAmount
\* = monthlyContribution * totalMonths, estimatedReturns = 0) when
\* monthlyContribution <= 0 or tenureYears <= 0; an annual return rate of
\* exactly 0 with positive contribution and tenure is not guarded and is
\* evaluated by the annuity formula.
C15_SipGuard ==
    sipPc # "start" =>
        /\ (monthlyInvestment <= 0 \/ timePeriod <= 0) =>
               /\ sipBranch = "guard"
               /\ sipSummary.totalValue = Fin(monthlyInvestment * (timePeriod * 12))
               /\ sipSummary.investedAmount = monthlyInvestment * (timePeriod * 12)
               /\ sipSummary.estimatedReturns = Fin(0)
        /\ (returnRate = 0 /\ monthlyInvestment > 0 /\ timePeriod > 0) =>
               /\ sipBranch = "formula"
               /\ sipSummary.totalValue
                      = RoundN(futureValueOf(monthlyInvestment, 0, timePeriod * 12))

\* A plan of 10000 a month at a return rate of exactly 0 over 15 years has
\* been summarised by the formula, not by the guard.
C15_Witness ==
    /\ SipDone
    /\ monthlyInvestment = Num(10000) /\ returnRate = 0 /\ timePeriod = 15
    /\ sipBranch = "formula"
    /\ sipSummary.investedAmount = Num(1800000)

\* ----------------------------------------- simple-interest properties
\* principal * rate * years over 400 (rates lie on the quarter-percent
\* grid), in 1 / (400 * MoneyScale) units.
InterestTimes400 == siPrincipal * (siRate \div QuarterPct) * siTime

\* d is within half a currency unit of x / 400, the upper half excluded:
\* base + d is base + x / 400 rounded, halves upwards, when it is whole.
IsNearest400(d, x) ==
    /\ 400 * d - x <= 200 * MoneyScale
    /\ x - 400 * d < 200 * MoneyScale

\* C16: the simple-interest engine returns (0, 0) when any of principal,
\* rate, years is <= 0; otherwise totalInterest = round(principal * rate *
\* years / 100) and totalAmount = round(principal + principal * rate * years
\* / 100), so that (100000, 6, 5) yields totalInterest = 30000 and
\* totalAmount = 130000.
C16_SimpleInterest ==
    siPc = "done" =>
        /\ (siPrincipal <= 0 \/ siRate <= 0 \/ siTime <= 0)
               => siResult = [totalInterest |-> 0, totalAmount |-> 0]
        /\ (siPrincipal > 0 /\ siRate > 0 /\ siTime > 0) =>
               /\ siResult.totalInterest % MoneyScale = 0
               /\ IsNearest400(siResult.totalInterest, InterestTimes400)
               /\ siResult.totalAmount % MoneyScale = 0
               /\ IsNearest400(siResult.totalAmount - siPrincipal, InterestTimes400)
        /\ (siPrincipal = Num(100000) /\ siRate = Pct(6) /\ siTime = 5)
               => siResult = [totalInterest |-> Num(30000),
                              totalAmount |-> Num(130000)]

\* Interest on 1000.50 at 1.25 % for 1 year has been computed: 12.50625
\* shows as 13 and the amount 1013.00625 as 1013, not as 1000.50 + 13.
C16_Witness ==
    /\ siPc = "done"
    /\ siPrincipal = Num(1000) + 50 /\ siRate = 5 * QuarterPct /\ siTime = 1
    /\ siResult.totalInterest = Num(13)
    /\ siResult.totalAmount = Num(1013)

\* ------------------------------------------------ SliderInput properties
InRange(v) == v >= min /\ v <= max

\* C17: on commit (blur) of the numeric input with min <= max, the
\* committed value is min if the parsed text is below min, max if it is
\* above max, and the parsed value itself otherwise; when min = max the
\* committed value is that single value whatever was typed.
C17_CommitClamps ==
    [][widgetOp'.op = "handleInputBlur" =>
          LET parsed == parseFloat(inputValue)
          IN  /\ (parsed.kind = "finite" /\ parsed.value < min) => sliderValue' = min
              /\ (parsed.kind = "finite" /\ parsed.value > max) => sliderValue' = max
              /\ (parsed.kind = "finite" /\ InRange(parsed.value))
                     => sliderValue' = parsed.value
              /\ min = max => sliderValue' = min
              /\ parseFloat(inputValue') = Fin(sliderValue')]_vars

\* The text "19" has been committed in a widget with range [9, 11]: the
\* value and the text are now 11.
C17_Witness ==
    /\ widgetOp.op = "handleInputBlur"
    /\ widgetOp.text = <<"1", "9">>
    /\ min = 9 * WidgetScale /\ max = 11 * WidgetScale
    /\ widgetOp.called
    /\ sliderValue = max
    /\ inputValue = <<"1", "1">>

\* C18: after any sequence of text edits (including empty, partial or
\* out-of-range text), slider moves and commits, every value the widget
\* passes to onChange is a number within [min, max]; unparsable or
\* out-of-range text typed during editing is held only in the widget's
\* local text and leaves the propagated value unchanged.
C18_OnlyValidPropagated ==
    [][/\ widgetOp'.called =>
              /\ InRange(widgetOp'.arg)
              /\ sliderValue' = widgetOp'.arg
       /\ InRange(sliderValue')
       /\ widgetOp'.op = "handleInputChange" =>
              LET typed == parseFloat(widgetOp'.text)
              IN  IF typed.kind = "finite" /\ InRange(typed.value)
                  THEN /\ widgetOp'.called
                       /\ widgetOp'.arg = typed.value
                  ELSE /\ ~widgetOp'.called
                       /\ sliderValue' = sliderValue
                       /\ inputValue' = widgetOp'.text]_vars

\* After the slider was moved to 10, "-" has been typed: the text is "-",
\* nothing was propagated and the value is still 10.
C18_Witness ==
    /\ widgetOp.op = "handleInputChange"
    /\ widgetOp.text = <<"-">>
    /\ ~widgetOp.called
    /\ inputValue = <<"-">>
    /\ sliderValue = 10 * WidgetScale

\* --------------------------------------------- pagination properties
\* C19 as stated: after any sequence of add loan, remove loan,
\* select-active-loan, update-parameter, next-page and previous-page
\* operations, the current page lies between 1 and the number of pages of
\* the active loan's schedule, ceil(schedule length / 12), whenever that
\* schedule is non-empty, so the displayed page is never empty for a loan
\* that has rows.
C19_PageInRange ==
    scheduleLengthOf(activeScenario) > 0 =>
        /\ currentPage >= 1
        /\ currentPage * 12 - 11 <= scheduleLengthOf(activeScenario)

\* ---------------------------------------------------- row properties
\* The balance outstanding before the payment of row i: the principal
\* less what the rows before it repaid.
BalanceBefore(i) == input.principal - SumPrincipalPaid(Rows, 1, i - 1)

\* x times the rate f, to the nearest representable amount.
TimesRate(x, f) ==
    IF x < 0 THEN 0 - MulDiv(0 - x, f, RateScale) ELSE MulDiv(x, f, RateScale)

\* C20: in every row of a loan schedule, in either repayment mode and
\* including the final row of 'emi' mode, totalPayment equals principalPaid
\* + interestPaid, where interestPaid is the balance outstanding before
\* that period's payment multiplied by the monthly rate (the original
\* principal for the first row).
C20_RowIdentity ==
    Returned =>
        \A i \in 1 .. Len(Rows) :
            /\ Rows[i].totalPayment = Rows[i].principalPaid + Rows[i].interestPaid
            /\ Rows[i].interestPaid = TimesRate(BalanceBefore(i), monthlyRateOf(input))

\* A two-year 'emi' schedule has been returned whose final payment is not
\* the installment: it is the balance left plus the interest on it.
C20_Witness ==
    /\ Returned /\ ValidInput /\ input.repaymentType = "emi"
    /\ Len(Rows) = 24
    /\ Rows[24].totalPayment # emiValue
    /\ Rows[24].principalPaid = Rows[23].remainingBalance
    /\ Rows[24].principalPaid = BalanceBefore(24)
    /\ Rows[24].totalPayment = Rows[24].principalPaid + Rows[24].interestPaid
    /\ Rows[24].interestPaid > 0

====
